---- MODULE Spec2Model ----
(***************************************************************************)
(* Model of jamf_api_tool.py (main, delete) and jamf_upload_lib/curl.py    *)
(* (status_check): one run of the command line tool against a Jamf Pro     *)
(* server whose answers are the environment's choice.                      *)
(***************************************************************************)
EXTENDS Integers, Sequences, FiniteSets, TLC

(***************************************************************************)
(* Bounds of the model.                                                    *)
(***************************************************************************)
MaxQueries == 2
MaxPolicies == 2
MaxNames == 2
MaxItems == 2
MaxCategories == 1
MaxComputers == 2

(***************************************************************************)
(* Program constants.                                                      *)
(***************************************************************************)
\* delete(): "if count > 5"
RetryLimit == 5
\* main(): "(now - seen).days < 10" and "(now - seen).days > 10"
StaleDays == 10

None == "None"

(***************************************************************************)
(* Strings are sequences of one-character strings; Python compares them    *)
(* by code point.                                                          *)
(***************************************************************************)
Ord(c) ==
    CASE c = "." -> 46
      [] c = "0" -> 48
      [] c = "1" -> 49
      [] c = "9" -> 57
      [] c = "A" -> 65
      [] c = "a" -> 97
      [] c = "b" -> 98
      [] c = "c" -> 99

\* Python str.__lt__: lexicographic by code point, a proper prefix is less
RECURSIVE StrLT(_, _)
StrLT(s, t) ==
    IF t = <<>> THEN FALSE
    ELSE IF s = <<>> THEN TRUE
    ELSE IF Ord(Head(s)) # Ord(Head(t)) THEN Ord(Head(s)) < Ord(Head(t))
    ELSE StrLT(Tail(s), Tail(t))

\* Python str.__ge__
StrGE(s, t) == ~StrLT(s, t)

\* Python "x in s" for strings: x occurs in s as a contiguous substring
StrIn(x, s) ==
    \E i \in 1..(Len(s) - Len(x) + 1) :
        SubSeq(s, i, i + Len(x) - 1) = x

\* all sequences over S of length 0..n
SeqsUpTo(S, n) == UNION {[1..k -> S] : k \in 0..n}

(***************************************************************************)
(* curl.status_check: the value returned and the message printed.          *)
(***************************************************************************)
\* status_check with 409 reported as a success
status_check_conflict_ok(status_code) ==
    IF status_code = 200 \/ status_code = 201 \/ status_code = 409
    THEN [ret |-> "break", msg |-> "was successful"]
    ELSE IF status_code = 401
    THEN [ret |-> "break", msg |-> "failed due to permissions error"]
    ELSE [ret |-> None, msg |-> None]

\* status_check without the 409 branch: a conflict is retried
status_check_retry_conflict(status_code) ==
    IF status_code = 200 \/ status_code = 201
    THEN [ret |-> "break", msg |-> "was successful"]
    ELSE IF status_code = 401
    THEN [ret |-> "break", msg |-> "failed due to permissions error"]
    ELSE [ret |-> None, msg |-> None]

\* status_check as written
status_check(status_code) ==
    IF status_code = 200 \/ status_code = 201
    THEN [ret |-> "break", msg |-> "was successful"]
    ELSE IF status_code = 409
    THEN [ret |-> "break", msg |-> "failed due to a conflict"]
    ELSE IF status_code = 401
    THEN [ret |-> "break", msg |-> "failed due to permissions error"]
    ELSE [ret |-> None, msg |-> None]

\* the status codes the server answers a DELETE with
StatusCodes == {200, 201, 401, 409, 500}

\* the warning delete() prints when it gives up
ExhaustedMsg == "did not succeed after 5 attempts"


(***************************************************************************)
(* State of one run of main().                                             *)
(***************************************************************************)
VARIABLES
    args,              \* the parsed command line
    slack_webhook,     \* webhook URL from the prefs (empty when not set there)
    pc,                \* position of main()
    error,             \* the uncaught exception that ended the run, or None
    dpc,               \* delete(): "idle", "attempting" or "returned"
    count,             \* delete(): count
    r,                 \* delete(): r.status_code of the last response, 0 before it
    sent,              \* DELETE requests issued by the current delete() call
    sleeps,            \* sleep(30) taken by the current delete() call
    outcome,           \* message the current delete() call ended with
    deleteCalls,       \* ids delete() was called with, in call order
    failed,            \* some delete() call of the run ended without success
    webhookPosts,      \* POST requests sent to the webhook URL
    listed,            \* ids of the policies printed as found, in order
    targets,           \* policy search: targets
    ti,                \* policy search: position in targets
    ci,                \* position in args.category
    obj,               \* obj: the policies or categories fetched, then a
                       \* category's items
    oi,                \* position in obj
    ni,                \* position in args.names
    computers,         \* computer ids to load
    xi,                \* position in computers
    cur,               \* macos, name, now - seen as the last parsed computer set them
    recent_computers,
    old_computers,
    warning,
    compliant,
    unparsable,        \* computers whose last_contact_time did not parse
    score              \* the health score lines printed

delVars == <<dpc, count, r, sent, sleeps, outcome, deleteCalls, failed>>
polVars == <<listed, targets, ti, ci, obj, oi, ni>>
compVars == <<computers, xi, cur, recent_computers, old_computers, warning,
              compliant, unparsable>>
vars == <<args, slack_webhook, pc, error, delVars, webhookPosts, polVars,
          compVars, score>>

(***************************************************************************)
(* Inputs.                                                                 *)
(***************************************************************************)
\* the name of policy i on the server
PolicyName(i) == IF i % 2 = 1 THEN <<"a", "b">> ELSE <<"A", "b">>
\* --search values
Queries == {<<"a">>, <<"b">>}
\* --category values: none, or one category
CategoryArgs == {<<>>, <<"cat">>}
\* hardware.os_version values, and --os values
OsVersions == {<<"1", "0", ".", "9">>, <<"1", "0", ".", "1", "0">>,
               <<"1", "1", ".", "0">>}
\* days between now and last_contact_time
Ages == (StaleDays - 1)..(StaleDays + 1)

\* the policies of the server, as check_api_finds_all returns them
PolicyLists ==
    {[i \in 1..k |-> [id |-> i, name |-> PolicyName(i)]] : k \in 0..MaxPolicies}

\* the policies of one category, as get_policies_in_category returns them
CategoryItems ==
    {[i \in 1..k |-> [id |-> i, name |-> <<"c">>]] : k \in 0..MaxItems}

\* the categories of the server, as check_api_finds_all returns them
CategoryLists ==
    {[i \in 1..k |-> [id |-> i, name |-> <<"c", "a">>]] : k \in 0..MaxCategories}

\* curl.request: the text looked for in "'fileuploads' in url"
Fileuploads == <<"f", "i", "l", "e", "u", "p", "l", "o", "a", "d", "s">>
\* slack_webhook values: not set, a URL, a URL with "fileuploads" in it
Webhooks == {<<>>, <<"h">>, Fileuploads \o <<"/", "h">>}

\* a computer object as get_api_obj_value_from_id returns it: nothing, or
\* a record whose last_contact_time parses (to now - age days) or does not;
\* the general.name of computer x is modelled as x
ComputerObjs ==
    {[found |-> FALSE]}
    \cup {[found |-> TRUE, timeOk |-> FALSE, macos |-> m] : m \in OsVersions}
    \cup {[found |-> TRUE, timeOk |-> TRUE, macos |-> m, age |-> a] :
            m \in OsVersions, a \in Ages}

Args ==
    [computer : BOOLEAN, policies : BOOLEAN, all : BOOLEAN, delete : BOOLEAN,
     slack : BOOLEAN, prefs : BOOLEAN,
     search : SeqsUpTo(Queries, MaxQueries),
     category : CategoryArgs,
     names : SeqsUpTo({"pol"}, MaxNames),
     os : {<<>>} \cup OsVersions]

Init ==
    /\ args \in {a \in Args : a.computer # a.policies}
    /\ slack_webhook \in Webhooks
    /\ pc = "start"
    /\ error = None
    /\ dpc = "idle"
    /\ count = 0
    /\ r = 0
    /\ sent = 0
    /\ sleeps = 0
    /\ outcome = None
    /\ deleteCalls = <<>>
    /\ failed = FALSE
    /\ webhookPosts = 0
    /\ listed = <<>>
    /\ targets = <<>>
    /\ ti = 1
    /\ ci = 1
    /\ obj = <<>>
    /\ oi = 1
    /\ ni = 1
    /\ computers = <<>>
    /\ xi = 1
    /\ cur = [bound |-> FALSE]
    /\ recent_computers = <<>>
    /\ old_computers = <<>>
    /\ warning = <<>>
    /\ compliant = <<>>
    /\ unparsable = 0
    /\ score = <<>>

(***************************************************************************)
(* delete(id, ...)                                                         *)
(***************************************************************************)
\* a run that stops deleting once a delete has failed
DeleteRequestedUntilFailure == args.delete /\ ~failed

\* a run that deletes whether or not --delete was given
DeleteAlways == TRUE

\* "if args.delete:" before each call of delete
DeleteRequested == args.delete

\* "if count > 5:"
GiveUp(n) == n > RetryLimit

\* the call delete(id, ...): the state on entering the loop
CallDelete(id) ==
    /\ dpc' = "attempting"
    /\ count' = 0
    /\ r' = 0
    /\ sent' = 0
    /\ sleeps' = 0
    /\ outcome' = None
    /\ deleteCalls' = Append(deleteCalls, id)
    /\ UNCHANGED failed

\* one pass of "while True": the request, the status check, then a break
\* or the 30 second sleep
DeleteAttempt ==
    /\ dpc = "attempting"
    /\ \E status_code \in StatusCodes :
         LET n == count + 1
             chk == status_check(status_code)
             msg == IF chk.ret = "break" THEN chk.msg
                    ELSE IF GiveUp(n) THEN ExhaustedMsg
                    ELSE None
         IN /\ count' = n
            /\ r' = status_code
            /\ sent' = sent + 1
            /\ outcome' = msg
            /\ dpc' = IF msg # None THEN "returned" ELSE "attempting"
            /\ sleeps' = IF msg # None THEN sleeps ELSE sleeps + 1
            /\ failed' = (failed \/ msg \notin {None, "was successful"})
    /\ UNCHANGED <<args, slack_webhook, pc, error, deleteCalls, webhookPosts,
                   polVars, compVars, score>>

\* delete() returns to main(): its locals are gone
DeleteReturn ==
    /\ dpc = "returned"
    /\ dpc' = "idle"
    /\ count' = 0
    /\ r' = 0
    /\ sent' = 0
    /\ sleeps' = 0
    /\ outcome' = None
    /\ UNCHANGED <<args, slack_webhook, pc, error, deleteCalls, failed,
                   webhookPosts, polVars, compVars, score>>


(***************************************************************************)
(* main(): credentials and the --slack check                               *)
(***************************************************************************)
\* slack_webhook is bound only when a prefs source was given
Start ==
    /\ pc = "start"
    /\ IF args.slack /\ ~args.prefs
       THEN pc' = "crash" /\ error' = "NameError"
       ELSE IF args.slack /\ slack_webhook = <<>>
       THEN pc' = "exit" /\ UNCHANGED error
       ELSE /\ pc' = IF args.computer THEN "computers" ELSE "policies"
            /\ UNCHANGED error
    /\ UNCHANGED <<args, slack_webhook, delVars, webhookPosts, polVars,
                   compVars, score>>

(***************************************************************************)
(* main(): the policy block                                                *)
(***************************************************************************)
\* "for x in query: for obj_item in obj: if x in obj_item['name']:
\*  targets.append(obj_item.copy())"
RECURSIVE MatchesOf(_, _)
MatchesOf(x, policies) ==
    IF policies = <<>> THEN <<>>
    ELSE (IF StrIn(x, Head(policies).name) THEN <<Head(policies)>> ELSE <<>>)
         \o MatchesOf(x, Tail(policies))

RECURSIVE SearchTargets(_, _)
SearchTargets(query, policies) ==
    IF query = <<>> THEN <<>>
    ELSE MatchesOf(Head(query), policies) \o SearchTargets(Tail(query), policies)

PoliciesSyntaxError ==
    /\ pc = "policies"
    /\ \/ args.search # <<>> /\ args.all
       \/ args.search = <<>> /\ ~args.all
    /\ pc' = "exit"
    /\ UNCHANGED <<args, slack_webhook, error, delVars, webhookPosts, polVars,
                   compVars, score>>

\* --search: fetch all policies and collect the targets
PoliciesSearch ==
    /\ pc = "policies"
    /\ args.search # <<>> /\ ~args.all
    /\ IF ~args.prefs
       THEN /\ pc' = "crash" /\ error' = "NameError"
            /\ UNCHANGED <<obj, targets, ti>>
       ELSE \E policies \in PolicyLists :
              /\ obj' = policies
              /\ targets' = SearchTargets(args.search, policies)
              /\ ti' = 1
              /\ pc' = IF targets' # <<>> THEN "search_loop" ELSE "category"
              /\ UNCHANGED error
    /\ UNCHANGED <<args, slack_webhook, delVars, webhookPosts, listed, ci, oi,
                   ni, compVars, score>>

\* "for target in targets:": print it and, with --delete, delete it
SearchTarget ==
    /\ pc = "search_loop"
    /\ dpc = "idle"
    /\ ti <= Len(targets)
    /\ listed' = Append(listed, targets[ti].id)
    /\ ti' = ti + 1
    /\ IF DeleteRequested THEN CallDelete(targets[ti].id) ELSE UNCHANGED delVars
    /\ UNCHANGED <<args, slack_webhook, pc, error, webhookPosts, targets, ci,
                   obj, oi, ni, compVars, score>>

SearchDone ==
    /\ pc = "search_loop"
    /\ dpc = "idle"
    /\ ti > Len(targets)
    /\ pc' = "category"
    /\ UNCHANGED <<args, slack_webhook, error, delVars, webhookPosts, polVars,
                   compVars, score>>

\* --all: obj is bound to the categories fetched, slack_send is called
\* whether or not --slack was given, and "for x in obj" then rebinds obj to
\* the policies of each category in turn; the categories and the policies
\* are only printed, so what the loop leaves is obj: the items of the last
\* category, or the empty category list
PoliciesAll ==
    /\ pc = "policies"
    /\ args.search = <<>> /\ args.all
    /\ IF ~args.prefs
       THEN pc' = "crash" /\ error' = "NameError"
            /\ UNCHANGED <<webhookPosts, obj>>
       ELSE \E cats \in CategoryLists :
              IF slack_webhook = <<>>
              THEN /\ obj' = cats
                   /\ pc' = "crash" /\ error' = "CalledProcessError"
                   /\ UNCHANGED webhookPosts
              ELSE \E items \in [DOMAIN cats -> CategoryItems] :
                     /\ webhookPosts' = webhookPosts + 1
                     /\ obj' = IF cats = <<>> THEN cats ELSE items[Len(cats)]
                     /\ pc' = "category"
                     /\ UNCHANGED error
    /\ UNCHANGED <<args, slack_webhook, delVars, listed, targets, ti, ci, oi,
                   ni, compVars, score>>

(***************************************************************************)
(* main(): --category                                                      *)
(***************************************************************************)
CategoryFetch ==
    /\ pc = "category"
    /\ dpc = "idle"
    /\ ci <= Len(args.category)
    /\ \E items \in CategoryItems :
         /\ obj' = items
         /\ oi' = 1
         /\ IF items # <<>>
            THEN pc' = "category_items" /\ UNCHANGED ci
            ELSE pc' = "category" /\ ci' = ci + 1
    /\ UNCHANGED <<args, slack_webhook, error, delVars, webhookPosts, listed, targets,
                   ti, ni, compVars, score>>

CategoryItem ==
    /\ pc = "category_items"
    /\ dpc = "idle"
    /\ oi <= Len(obj)
    /\ listed' = Append(listed, obj[oi].id)
    /\ oi' = oi + 1
    /\ IF DeleteRequested THEN CallDelete(obj[oi].id) ELSE UNCHANGED delVars
    /\ IF oi = Len(obj)
       THEN pc' = "category" /\ ci' = ci + 1
       ELSE UNCHANGED <<pc, ci>>
    /\ UNCHANGED <<args, slack_webhook, error, webhookPosts, targets, ti, obj,
                   ni, compVars, score>>

CategoryDone ==
    /\ pc = "category"
    /\ dpc = "idle"
    /\ ci > Len(args.category)
    /\ pc' = "names"
    /\ UNCHANGED <<args, slack_webhook, error, delVars, webhookPosts, polVars,
                   compVars, score>>

(***************************************************************************)
(* main(): --name                                                          *)
(***************************************************************************)
\* obj_id = 0: get_api_obj_id_from_name found no policy of that name
NameIds == {0, 1}

NameStep ==
    /\ pc = "names"
    /\ dpc = "idle"
    /\ ni <= Len(args.names)
    /\ \E obj_id \in NameIds :
         /\ ni' = ni + 1
         /\ IF obj_id # 0
            THEN /\ listed' = Append(listed, obj_id)
                 /\ IF DeleteRequested THEN CallDelete(obj_id)
                    ELSE UNCHANGED delVars
            ELSE UNCHANGED <<listed, delVars>>
    /\ UNCHANGED <<args, slack_webhook, pc, error, webhookPosts, targets, ti, ci, obj, oi,
                   compVars, score>>

NamesDone ==
    /\ pc = "names"
    /\ dpc = "idle"
    /\ ni > Len(args.names)
    /\ pc' = "done"
    /\ UNCHANGED <<args, slack_webhook, error, delVars, webhookPosts, polVars,
                   compVars, score>>


(***************************************************************************)
(* main(): the computers block                                             *)
(***************************************************************************)
ComputersSyntaxError ==
    /\ pc = "computers"
    /\ ~args.all
    /\ pc' = "exit"
    /\ UNCHANGED <<args, slack_webhook, error, delVars, webhookPosts, polVars,
                   compVars, score>>

\* --all: the ids of all computers
ComputersAll ==
    /\ pc = "computers"
    /\ args.all
    /\ IF args.search # <<>>
       THEN pc' = "exit" /\ UNCHANGED <<error, computers>>
       ELSE IF ~args.prefs
       THEN pc' = "crash" /\ error' = "NameError" /\ UNCHANGED computers
       ELSE /\ \E k \in 0..MaxComputers : computers' = [i \in 1..k |-> i]
            /\ pc' = "computers_loop"
            /\ UNCHANGED error
    /\ UNCHANGED <<args, slack_webhook, delVars, webhookPosts, polVars, xi, cur,
                   recent_computers, old_computers, warning, compliant,
                   unparsable, score>>

\* the lists a computer seen `days` days ago is appended to
Buckets(days, macos, os) ==
    (IF days < StaleDays /\ os = <<>> THEN {"recent"} ELSE {})
    \cup (IF days < StaleDays /\ os # <<>> /\ StrGE(macos, os)
          THEN {"compliant"}
          ELSE IF days < StaleDays /\ os # <<>> /\ StrLT(macos, os)
          THEN {"warning"} ELSE {})
    \cup (IF days > StaleDays THEN {"old"} ELSE {})

AppendIf(list, cond, e) == IF cond THEN Append(list, e) ELSE list

\* "for x in computers:": load the computer, parse it, classify it.  When
\* nothing is loaded, macos, now and seen keep the previous computer's values
ComputerStep ==
    /\ pc = "computers_loop"
    /\ xi <= Len(computers)
    /\ \E o \in ComputerObjs :
         IF o.found /\ ~o.timeOk
         THEN /\ pc' = "crash" /\ error' = "ValueError"
              /\ unparsable' = unparsable + 1
              /\ UNCHANGED <<xi, cur, recent_computers, old_computers, warning,
                             compliant>>
         ELSE IF ~o.found /\ ~cur.bound
         THEN /\ pc' = "crash" /\ error' = "NameError"
              /\ UNCHANGED <<xi, cur, recent_computers, old_computers, warning,
                             compliant, unparsable>>
         ELSE LET c == IF o.found
                       THEN [bound |-> TRUE, macos |-> o.macos,
                             name |-> computers[xi], days |-> o.age]
                       ELSE cur
                  e == [id |-> computers[xi], macos |-> c.macos,
                        name |-> c.name, difference |-> c.days]
                  b == Buckets(c.days, c.macos, args.os)
              IN /\ cur' = c
                 /\ recent_computers' = AppendIf(recent_computers, "recent" \in b, e)
                 /\ compliant' = AppendIf(compliant, "compliant" \in b, e)
                 /\ warning' = AppendIf(warning, "warning" \in b, e)
                 /\ old_computers' = AppendIf(old_computers, "old" \in b, e)
                 /\ xi' = xi + 1
                 /\ UNCHANGED <<pc, error, unparsable>>
    /\ UNCHANGED <<args, slack_webhook, delVars, webhookPosts, polVars,
                   computers, score>>

\* --- Python float arithmetic (IEEE 754 binary64, round to nearest, ties to
\* --- even). A natural number is a list of limbs, most significant first,
\* --- each limb in 0..Base-1; a float is [m, q] with m a 53-bit natural
\* --- number and value m * 2^q.
MantissaBits == 53
LimbBits == 9

RECURSIVE Pow2(_)
Pow2(n) == IF n = 0 THEN 1 ELSE 2 * Pow2(n - 1)

Base == Pow2(LimbBits)

Zeros(n) == [i \in 1..n |-> 0]

RECURSIVE Strip(_)
Strip(n) == IF n # <<>> /\ n[1] = 0 THEN Strip(Tail(n)) ELSE n

RECURSIVE ToInt(_)
ToInt(n) ==
    IF n = <<>> THEN 0
    ELSE Base * ToInt(SubSeq(n, 1, Len(n) - 1)) + n[Len(n)]

RECURSIVE BitLenInt(_)
BitLenInt(v) == IF v = 0 THEN 0 ELSE 1 + BitLenInt(v \div 2)

BitLen(n) ==
    LET s == Strip(n)
    IN IF s = <<>> THEN 0 ELSE LimbBits * (Len(s) - 1) + BitLenInt(s[1])

\* n + 1
RECURSIVE Inc(_)
Inc(n) ==
    IF n = <<>> THEN <<1>>
    ELSE IF n[Len(n)] < Base - 1
    THEN SubSeq(n, 1, Len(n) - 1) \o <<n[Len(n)] + 1>>
    ELSE Inc(SubSeq(n, 1, Len(n) - 1)) \o <<0>>

\* n * c + carry, for a small c
RECURSIVE MulSmall(_, _, _)
MulSmall(n, c, carry) ==
    IF n = <<>> THEN (IF carry = 0 THEN <<>> ELSE <<carry>>)
    ELSE LET t == n[Len(n)] * c + carry
         IN MulSmall(SubSeq(n, 1, Len(n) - 1), c, t \div Base) \o <<t % Base>>

\* n / 2^s rounded to a natural number, ties to even; `sticky` says that
\* something nonzero lies below the last limb of n (s >= 1)
RoundShift(n, s, sticky) ==
    LET pad == (LimbBits - (s % LimbBits)) % LimbBits
        w == (s + pad) \div LimbBits
        n1 == MulSmall(n, Pow2(pad), 0)
        n2 == IF Len(n1) > w THEN n1 ELSE Zeros(w + 1 - Len(n1)) \o n1
        high == SubSeq(n2, 1, Len(n2) - w)
        low == SubSeq(n2, Len(n2) - w + 1, Len(n2))
        below == sticky \/ \E i \in 2..w : low[i] # 0
        up == \/ low[1] > Base \div 2
              \/ low[1] = Base \div 2 /\ (below \/ high[Len(high)] % 2 = 1)
    IN Strip(IF up THEN Inc(high) ELSE high)

\* n * 2^q (n of more than 53 bits) rounded to a float
RoundToFloat(n, q, sticky) ==
    LET s == BitLen(n) - MantissaBits
        m == RoundShift(n, s, sticky)
    IN IF BitLen(m) > MantissaBits
       THEN [m |-> RoundShift(m, 1, FALSE), q |-> q + s + 1]
       ELSE [m |-> m, q |-> q + s]

\* the n next limbs of rem / b (rem < b), and the remainder left
RECURSIVE LongDiv(_, _, _)
LongDiv(rem, b, n) ==
    IF n = 0 THEN [limbs |-> <<>>, rem |-> rem]
    ELSE LET t == Base * rem
             rest == LongDiv(t % b, b, n - 1)
         IN [limbs |-> <<t \div b>> \o rest.limbs, rem |-> rest.rem]

\* the place k of the first 1 bit of a / b (0 < a < b): a * 2^k >= b
RECURSIVE FirstBit(_, _)
FirstBit(a, b) == IF 2 * a >= b THEN 1 ELSE 1 + FirstBit(2 * a, b)

\* Python a / b for ints 0 < a <= b
FloatDiv(a, b) ==
    IF a = b
    THEN [m |-> MulSmall(<<1>>, Pow2((MantissaBits - 1) % LimbBits), 0)
                \o Zeros((MantissaBits - 1) \div LimbBits),
          q |-> -(MantissaBits - 1)]
    ELSE LET k == FirstBit(a, b)
             n == (MantissaBits + 1) \div LimbBits
             d == LongDiv(a * Pow2(k - 1), b, n)
         IN RoundToFloat(d.limbs, -(k - 1) - n * LimbBits, d.rem # 0)

\* Python x * 100 for a float x
FloatTimes100(x) == RoundToFloat(MulSmall(x.m, 100, 0), x.q, FALSE)

\* format(y, ".2f") read as hundredths: the exact value of the float y
\* times 100, rounded to an integer, ties to even
HundredthsOf(y) == ToInt(RoundShift(MulSmall(y.m, 100, 0), -y.q, FALSE))

\* "{:.2%}".format(a / b) in hundredths of a percent: the float a / b is
\* multiplied by 100 as a float and the product is formatted with 2 decimals
ScorePct(a, b) ==
    IF a = 0 THEN 0 ELSE HundredthsOf(FloatTimes100(FloatDiv(a, b)))

\* the summary, then with --slack the health score line and the call
\* curl.request("POST", slack_webhook, ..., data) with data a dict. With
\* "fileuploads" in the URL request formats the dict into "--form name=@..."
\* and curl stops on the file it cannot read (CalledProcessError); otherwise
\* request puts the dict itself into the curl command line and subprocess
\* raises TypeError before curl is started. No request leaves either way
ComputersReport ==
    /\ pc = "computers_loop"
    /\ xi > Len(computers)
    /\ IF ~args.slack
       THEN pc' = "exit" /\ UNCHANGED <<error, score, webhookPosts>>
       ELSE IF Len(old_computers) + Len(recent_computers) = 0
       THEN /\ pc' = "crash" /\ error' = "ZeroDivisionError"
            /\ UNCHANGED <<score, webhookPosts>>
       ELSE /\ score' = Append(score, ScorePct(Len(recent_computers),
                          Len(old_computers) + Len(recent_computers)))
            /\ pc' = "crash"
            /\ error' = IF StrIn(Fileuploads, slack_webhook)
                        THEN "CalledProcessError" ELSE "TypeError"
            /\ UNCHANGED webhookPosts
    /\ UNCHANGED <<args, slack_webhook, delVars, polVars, compVars>>

(***************************************************************************)
(* The run.                                                                *)
(***************************************************************************)
Next ==
    \/ Start
    \/ ComputersSyntaxError
    \/ ComputersAll
    \/ ComputerStep
    \/ ComputersReport
    \/ PoliciesSyntaxError
    \/ PoliciesSearch
    \/ SearchTarget
    \/ SearchDone
    \/ PoliciesAll
    \/ CategoryFetch
    \/ CategoryItem
    \/ CategoryDone
    \/ NameStep
    \/ NamesDone
    \/ DeleteAttempt
    \/ DeleteReturn

Spec == Init /\ [][Next]_vars


(***************************************************************************)
(* Properties of delete().                                                 *)
(***************************************************************************)
\* the statuses status_check is to end the call on
TerminalCodes == {200, 201, 409, 401}

\* C1: one call of delete issues at most 5 DELETE requests, and a call that
\* gives up does so after exactly five
C1_AtMostFiveRequests ==
    /\ sent <= 5
    /\ (dpc = "returned" /\ outcome = ExhaustedMsg) => sent = 5

\* C2: once the last response of a delete call is 200, 201, 409 or 401 the
\* call has ended: it sleeps no more and issues no further request, so a
\* terminal status on attempt n leaves n requests and n - 1 sleeps
C2_TerminalStatusEndsCall ==
    [][(r \in TerminalCodes) =>
         (dpc = "returned" /\ sent = count /\ sleeps = sent - 1
          /\ sent' <= sent /\ sleeps' <= sleeps)]_vars

C2_Witness ==
    dpc = "returned" /\ r = 409 /\ sent = 1 /\ sleeps = 0 /\ count = 1

\* the outcome the last response received decides
OutcomeOf(status_code) ==
    IF status_code \in {200, 201} THEN "was successful"
    ELSE IF status_code = 409 THEN "failed due to a conflict"
    ELSE IF status_code = 401 THEN "failed due to permissions error"
    ELSE ExhaustedMsg

\* C3: a delete call ends with exactly one outcome, the one its last
\* response decides (success, conflict, permissions failure, retries
\* exhausted), and has none before it ends
C3_OutcomeByLastResponse ==
    /\ dpc = "returned" => outcome = OutcomeOf(r)
    /\ dpc = "attempting" =>
         outcome = None /\ count <= RetryLimit /\ r \notin TerminalCodes
    /\ outcome = "was successful" => r \in {200, 201}

C3_Witness ==
    dpc = "returned" /\ r = 401 /\ outcome = "failed due to permissions error"

(***************************************************************************)
(* Properties of the policy run.                                           *)
(***************************************************************************)
\* C4: with --delete every policy listed as found gets its own delete call,
\* in list order, whatever the earlier calls ended with; a failed delete
\* never ends the run, and the run reaches its end with every list done
C4_FailedDeleteHaltsOnlyItself ==
    /\ args.delete => deleteCalls = listed
    /\ failed => pc \notin {"crash", "exit"}
    /\ pc \in {"search_loop", "category", "category_items", "names", "done"} =>
         /\ ti - 1 <= Len(listed)
         /\ \A i \in 1..(ti - 1) : listed[i] = targets[i].id
    /\ pc \in {"category", "category_items", "names", "done"} =>
         ti = Len(targets) + 1
    /\ pc = "done" => ci = Len(args.category) + 1 /\ ni = Len(args.names) + 1

C4_Witness ==
    /\ failed
    /\ dpc = "attempting"
    /\ sent = 0
    /\ Len(deleteCalls) >= 2
    /\ pc = "search_loop"

\* C8: the search result holds a policy exactly when some query occurs in
\* its name, and holds no policy twice
C8_TargetsOncePerPolicy ==
    pc = "search_loop" =>
        /\ \A i, j \in DOMAIN targets :
             targets[i].id = targets[j].id => i = j
        /\ \A k \in DOMAIN obj :
             (\E i \in DOMAIN targets : targets[i] = obj[k])
             <=> (\E q \in DOMAIN args.search : StrIn(args.search[q], obj[k].name))


(***************************************************************************)
(* Properties of the computer report.                                      *)
(***************************************************************************)
InList(list, x) == \E i \in DOMAIN list : list[i].id = x

\* the computer the last pass of the loop loaded and parsed
JustParsed ==
    /\ pc = "computers_loop"
    /\ xi > 1
    /\ cur.bound
    /\ cur.name = computers[xi - 1]

\* C5: a computer last seen exactly 10 days ago is listed as stale and not
\* as recent, with or without --os
C5_BoundaryIsStale ==
    (JustParsed /\ cur.days = StaleDays) =>
        /\ InList(old_computers, computers[xi - 1])
        /\ ~InList(recent_computers, computers[xi - 1])

\* C6: while the computers are classified, each computer gone through is in
\* at most one list, and the sizes of the lists add up to the computers gone
\* through less the unparsable ones
C6_BucketsPartitionRecords ==
    pc = "computers_loop" =>
        /\ Len(recent_computers) + Len(old_computers) + Len(warning)
             + Len(compliant) = (xi - 1) - unparsable
        /\ \A x \in 1..(xi - 1) :
             Cardinality({l \in {"recent", "old", "warning", "compliant"} :
                 InList(CASE l = "recent" -> recent_computers
                          [] l = "old" -> old_computers
                          [] l = "warning" -> warning
                          [] l = "compliant" -> compliant, x)}) = 1

\* a dotted version as the list of its numbers
RECURSIVE SplitDots(_)
SplitDots(s) ==
    IF s = <<>> THEN << <<>> >>
    ELSE IF Head(s) = "." THEN << <<>> >> \o SplitDots(Tail(s))
    ELSE LET rest == SplitDots(Tail(s))
         IN << <<Head(s)>> \o Head(rest) >> \o Tail(rest)

RECURSIVE DigitsToInt(_)
DigitsToInt(ds) ==
    IF ds = <<>> THEN 0
    ELSE DigitsToInt(SubSeq(ds, 1, Len(ds) - 1)) * 10 + (Ord(ds[Len(ds)]) - 48)

VersionNumbers(s) ==
    LET parts == SplitDots(s) IN [i \in DOMAIN parts |-> DigitsToInt(parts[i])]

RECURSIVE NumbersLT(_, _)
NumbersLT(a, b) ==
    IF b = <<>> THEN FALSE
    ELSE IF a = <<>> THEN TRUE
    ELSE IF Head(a) # Head(b) THEN Head(a) < Head(b)
    ELSE NumbersLT(Tail(a), Tail(b))

\* component-wise numeric "a >= b" of dotted versions
VersionGE(a, b) == ~NumbersLT(VersionNumbers(a), VersionNumbers(b))

\* C7: with --os, a computer seen within 10 days is listed as compliant
\* exactly when its OS version is numerically at least the --os version,
\* and as non-compliant otherwise
C7_NumericOsCompare ==
    (JustParsed /\ cur.days < StaleDays /\ args.os # <<>>) =>
        /\ InList(compliant, computers[xi - 1]) <=> VersionGE(cur.macos, args.os)
        /\ InList(warning, computers[xi - 1]) <=> ~VersionGE(cur.macos, args.os)

\* C9: with --slack and no recent and no stale computer, no score is
\* computed and the run does not end in a division by zero
C9_NoScoreWhenEmpty ==
    /\ error # "ZeroDivisionError"
    /\ (pc \in {"exit", "crash"}
        /\ Len(recent_computers) + Len(old_computers) = 0) => score = <<>>

\* C10: a computer whose last_contact_time does not parse never ends the run
C10_UnparsableNeverAborts ==
    unparsable > 0 => (pc # "crash" /\ error = None)


(***************************************************************************)
(* Properties of the flags.                                                *)
(***************************************************************************)
\* C11: a run with --all takes no action: delete is never called in it and
\* no DELETE request is issued
C11_AllIsBrowseOnly ==
    args.all => (deleteCalls = <<>> /\ sent = 0 /\ dpc = "idle")


\* C12: without --delete no delete call is made and no DELETE request is
\* issued, on any path; and every delete call made is for the policy listed
\* at that place by the path that made it
C12_DeleteOnlyWhenRequested ==
    /\ ~args.delete => (deleteCalls = <<>> /\ sent = 0 /\ dpc = "idle")
    /\ Len(deleteCalls) <= Len(listed)
    /\ \A i \in DOMAIN deleteCalls : deleteCalls[i] = listed[i]

C12_Witness ==
    /\ ~args.delete
    /\ pc = "done"
    /\ targets # <<>>
    /\ args.category # <<>>
    /\ args.names # <<>>
    /\ Len(listed) >= Len(targets) + 2
    /\ deleteCalls = <<>>

\* C13: a request is sent to the webhook URL only in a run with --slack,
\* and only from the computer report
C13_WebhookOnlyWithSlack ==
    webhookPosts > 0 => (args.slack /\ args.computer)

====
